---- MODULE Spec2Model ----
(***************************************************************************)
(* Model of pyspread's src/model/model.py (Python 2).                      *)
(*                                                                         *)
(*   KeyValueStore / DictGrid   layer 0/1: dict with a shape               *)
(*   CellAttributes             the list of (selection, attributes) pairs  *)
(*   DataArray                  layer 2: set, get, shape, insert, delete   *)
(*   CodeArray                  layer 3: cell evaluation                   *)
(*   UnRedo                     the undo/redo log                          *)
(*                                                                         *)
(* DataArray never calls UnRedo and never reads cell_attributes, so the    *)
(* classes are checked under separate specifications (SpecGrid, SpecEdit,  *)
(* SpecCode, SpecAttr, SpecUnRedo, ...) over one set of variables.         *)
(*                                                                         *)
(* Python tuples are TLA+ sequences; Python's 0-based axis a is index a+1. *)
(* An operation that raises is an action whose outcome is recorded in      *)
(* result.exc; the state it leaves is the state at the raise.              *)
(***************************************************************************)
EXTENDS Integers, Sequences, FiniteSets, TLC

VARIABLES
    shape,      \* DictGrid.shape
    dict_grid,  \* the dict itself: a function from stored keys to values
    call,       \* history: the last DataArray call [op, args, val]
    result,     \* history: its outcome [exc, val]
    pre,        \* history: [grid, shape] before the last call
    rt,         \* history: insert immediately followed by the same delete
    flags,      \* history: [clean, everSet] over the DataArray calls so far
    undolist,   \* UnRedo.undolist
    redolist,   \* UnRedo.redolist
    active,     \* UnRedo.active
    pc,         \* position of the running undo()/redo() call, or "idle"
    nextId,     \* history: number of entries handed to append so far
    invoked,    \* history: actions invoked by the current/last undo()/redo()
    ucall,      \* history: the last UnRedo step taken
    acall,      \* history: the last append call and the log before it
    steps,      \* history: the mark()-delimited step of every entry
    scen,       \* history: progress through append; mark; undo; redo
    snap,       \* history: the log before the last undo(), and what followed
    globs,      \* CodeArray: the module globals bound by evaluated cells
    ev,         \* history: the last CodeArray evaluation [src, globs, res]
    cell_attributes,  \* DictGrid.cell_attributes: list of (selection, dict)
    acc         \* history: the last CellAttributes lookup [key, attrs, res]

gridVars == <<shape, dict_grid, call, result, pre, rt, flags>>
logVars == <<undolist, redolist, active, pc, nextId, invoked, ucall, acall, steps, scen,
             snap>>
codeVars == <<globs, ev>>
attrVars == <<cell_attributes, acc>>
vars == <<shape, dict_grid, call, result, pre, rt, flags,
          undolist, redolist, active, pc, nextId, invoked, ucall, acall, steps, scen,
          snap, globs, ev, cell_attributes, acc>>

(***************************************************************************)
(* Bounds                                                                  *)
(***************************************************************************)
MaxAxis == 2     \* largest extent of an axis, largest index tried
MaxCount == 1    \* largest number of rows/columns inserted or deleted
MaxEntries == 4  \* number of entries handed to UnRedo.append in one run
MaxLen == 6      \* longest undolist (redo() pushes a MARK at every call)

Values == {"a", "b"}
None == "None"
KeyRange == -1 .. MaxAxis
\* keys and shapes tried: rows and columns vary, the table axis has extent 1
Coords == {<<x, y, 0>> : x \in KeyRange, y \in KeyRange}
Shapes == {<<x, y, 1>> : x \in 1 .. MaxAxis, y \in 1 .. MaxAxis}
Points == KeyRange
Counts == -1 .. MaxCount
Axes == -1 .. 3

Min(a, b) == IF a < b THEN a ELSE b

(***************************************************************************)
(* Layer 0/1: KeyValueStore, DictGrid                                      *)
(***************************************************************************)
EmptyGrid == [k \in {} |-> None]

\* dict.__setitem__, inherited unchanged by DictGrid: no bounds check.
DictSet(g, k, v) == [x \in (DOMAIN g) \cup {k} |-> IF x = k THEN v ELSE g[x]]

\* dict.pop(key)
DictPop(g, k) == [x \in (DOMAIN g) \ {k} |-> g[x]]

Ok(v) == [exc |-> "none", val |-> v]
Raise(e) == [exc |-> e, val |-> None]

\* KeyValueStore.__missing__: the default value None.
Missing(k) == None

\* The bounds test of DictGrid.__getitem__ (shape[axis] of an axis the shape
\* does not have is itself an IndexError).
OutsideShape(key, shp) ==
    \E axis \in 1 .. Len(key) :
        \/ axis > Len(shp)
        \/ shp[axis] <= key[axis]
        \/ key[axis] < -shp[axis]

\* KeyValueStore.__getitem__(key): the unbound dict.__getitem__ called with
\* the key tuple in the place of self, which Python rejects with TypeError
\* ("descriptor '__getitem__' requires a 'dict' object but received a 'tuple'").
UnboundGetItem(key) == Raise("TypeError")

\* DictGrid.__getitem__
DictGridGetItem(key, shp) ==
    IF OutsideShape(key, shp) THEN Raise("IndexError") ELSE UnboundGetItem(key)

(***************************************************************************)
(* Layer 2: DataArray                                                      *)
(***************************************************************************)
\* itertools.product(single_keys_per_dim): the product of ONE iterable, i.e.
\* one 1-tuple per element of the list.
Product1(single_keys_per_dim) ==
    [i \in 1 .. Len(single_keys_per_dim) |-> <<single_keys_per_dim[i]>>]

RECURSIVE StoreAll(_, _, _)
\* for single_key in single_keys: self.dict_grid[single_key] = value
StoreAll(g, single_keys, value) ==
    IF single_keys = <<>> THEN g
    ELSE StoreAll(DictSet(g, Head(single_keys), value), Tail(single_keys), value)

\* Iterating a DataArray (for key in self): the class has __getitem__ and no
\* __iter__, so Python calls self[0], self[1], ...; DataArray.__getitem__(0)
\* runs "for key_ele in key" on the int 0, a TypeError.  The iteration yields
\* no key and ends in that exception.
SelfIter == [keys |-> <<>>, exc |-> "TypeError"]

\* all-integer keys only: neither _is_slice_like nor _is_string_like holds
SetItemEffect(g, key, value) == StoreAll(g, Product1(key), value)

\* new shape smaller than the old one on some axis (zip truncates)
Shrinks(new, old) ==
    \E i \in 1 .. Min(Len(new), Len(old)) : new[i] < old[i]

\* any(key_ele >= new_axis for key_ele, new_axis in zip(key, shape))
Beyond(key, new) ==
    \E i \in 1 .. Min(Len(key), Len(new)) : key[i] >= new[i]

\* a plausible slip: the lower bound of the point is taken as inclusive
InsertCheckOpen(point, axis, shp) ==
    IF ~(0 <= axis /\ axis <= Len(shp)) THEN "ValueError"
    ELSE IF axis = Len(shp) THEN "IndexError"
    ELSE IF point > shp[axis + 1] \/ point < -shp[axis + 1] THEN "IndexError"
    ELSE "none"

\* The argument checks of insert (lines 420-425) and delete (448-456).
InsertCheck(point, axis, shp) ==
    IF ~(0 <= axis /\ axis <= Len(shp)) THEN "ValueError"
    ELSE IF axis = Len(shp) THEN "IndexError"    \* self.shape[axis]
    ELSE IF point > shp[axis + 1] \/ point <= -shp[axis + 1] THEN "IndexError"
    ELSE "none"

DeleteCheck(point, count, axis, shp) ==
    IF count < 0 THEN "ValueError" ELSE InsertCheck(point, axis, shp)

\* Body of insert's loop for one key, on the pair <<grid, new_cells>>.
InsertBody(gn, key, point, count, axis) ==
    IF key[axis + 1] >= point
    THEN <<DictPop(gn[1], key),
           DictSet(gn[2], [key EXCEPT ![axis + 1] = @ + count], gn[1][key])>>
    ELSE gn

\* Body of delete's loop for one key.
DeleteBody(gn, key, point, count, axis) ==
    IF point <= key[axis + 1] /\ key[axis + 1] < point + count
    THEN <<DictPop(gn[1], key), gn[2]>>
    ELSE IF key[axis + 1] >= point + count
    THEN <<DictPop(gn[1], key),
           DictSet(gn[2], [key EXCEPT ![axis + 1] = @ - count], gn[1][key])>>
    ELSE gn

RECURSIVE InsertLoop(_, _, _, _, _)
InsertLoop(gn, keys, point, count, axis) ==
    IF keys = <<>> THEN gn
    ELSE InsertLoop(InsertBody(gn, Head(keys), point, count, axis),
                    Tail(keys), point, count, axis)

RECURSIVE DeleteLoop(_, _, _, _, _)
DeleteLoop(gn, keys, point, count, axis) ==
    IF keys = <<>> THEN gn
    ELSE DeleteLoop(DeleteBody(gn, Head(keys), point, count, axis),
                    Tail(keys), point, count, axis)

\* dict.update(new_cells)
DictUpdate(g, new) ==
    [x \in (DOMAIN g) \cup (DOMAIN new) |-> IF x \in DOMAIN new THEN new[x] ELSE g[x]]

NoRT == [valid |-> FALSE, grid |-> EmptyGrid, exc |-> "none"]

GridInitShape == <<MaxAxis, MaxAxis, 1>>

InitGridVars ==
    /\ shape = GridInitShape
    /\ dict_grid = EmptyGrid
    /\ call = [op |-> "init", args |-> <<>>, val |-> None]
    /\ result = Ok(None)
    /\ pre = [grid |-> EmptyGrid, shape |-> GridInitShape]
    /\ rt = NoRT
    /\ flags = [clean |-> TRUE, everSet |-> FALSE]

\* DataArray.__setitem__(key, value)
SetItem(key, value) ==
    /\ dict_grid' = SetItemEffect(dict_grid, key, value)
    /\ shape' = shape
    /\ call' = [op |-> "set", args |-> key, val |-> value]
    /\ result' = Ok(None)
    /\ pre' = [grid |-> dict_grid, shape |-> shape]
    /\ rt' = NoRT
    /\ flags' = [flags EXCEPT !.everSet = TRUE]
    /\ UNCHANGED logVars
    /\ UNCHANGED <<codeVars, attrVars>>

\* DataArray.__getitem__(key) with an all-integer key: self.dict_grid[key].
\* call.val remembers the value written by a set of the same key made
\* immediately before.
GetItem(key) ==
    /\ result' = DictGridGetItem(key, shape)
    /\ call' = [op |-> "get", args |-> key,
                val |-> IF call.op = "set" /\ call.args = key THEN call.val ELSE None]
    /\ pre' = [grid |-> dict_grid, shape |-> shape]
    /\ rt' = NoRT
    /\ flags' = [flags EXCEPT !.clean = @ /\ result'.exc = "none"]
    /\ UNCHANGED <<shape, dict_grid>>
    /\ UNCHANGED logVars
    /\ UNCHANGED <<codeVars, attrVars>>

\* DataArray._set_shape(new).  Popping inside "for key in self.dict_grid"
\* makes the dict iterator raise RuntimeError at its next step, so the first
\* key found beyond the new shape is removed and nothing else happens; which
\* key the iteration meets first is the dict's (unspecified) order.
SetShape(new) ==
    /\ call' = [op |-> "resize", args |-> new, val |-> None]
    /\ pre' = [grid |-> dict_grid, shape |-> shape]
    /\ rt' = NoRT
    /\ IF Shrinks(new, shape) /\ \E k \in DOMAIN dict_grid : Beyond(k, new)
       THEN \E k \in {x \in DOMAIN dict_grid : Beyond(x, new)} :
                /\ dict_grid' = DictPop(dict_grid, k)
                /\ shape' = shape
                /\ result' = Raise("RuntimeError")
       ELSE /\ dict_grid' = dict_grid
            /\ shape' = new
            /\ result' = Ok(None)
    /\ flags' = [flags EXCEPT !.clean = @ /\ result'.exc = "none"]
    /\ UNCHANGED logVars
    /\ UNCHANGED <<codeVars, attrVars>>

\* DataArray.insert(insertion_point, no_to_insert, axis)
Insert(point, count, axis) ==
    LET chk == InsertCheck(point, axis, shape)
        gn == InsertLoop(<<dict_grid, EmptyGrid>>, SelfIter.keys, point, count, axis)
    IN  /\ call' = [op |-> "insert", args |-> <<point, count, axis>>, val |-> None]
        /\ pre' = [grid |-> dict_grid, shape |-> shape]
        /\ rt' = NoRT
        /\ shape' = shape
        /\ IF chk # "none"
           THEN /\ result' = Raise(chk)
                /\ dict_grid' = dict_grid
           ELSE IF SelfIter.exc # "none"
           THEN /\ result' = Raise(SelfIter.exc)
                /\ dict_grid' = gn[1]
           ELSE /\ result' = Ok(None)
                /\ dict_grid' = DictUpdate(gn[1], gn[2])
        /\ flags' = [flags EXCEPT !.clean = @ /\ result'.exc = "none"]
        /\ UNCHANGED logVars
        /\ UNCHANGED <<codeVars, attrVars>>

\* DataArray.delete(deletion_point, no_to_delete, axis).  rt remembers the
\* grid before an insert with the same arguments made immediately before.
Delete(point, count, axis) ==
    LET chk == DeleteCheck(point, count, axis, shape)
        gn == DeleteLoop(<<dict_grid, EmptyGrid>>, SelfIter.keys, point, count, axis)
    IN  /\ call' = [op |-> "delete", args |-> <<point, count, axis>>, val |-> None]
        /\ pre' = [grid |-> dict_grid, shape |-> shape]
        /\ rt' = IF call.op = "insert" /\ call.args = <<point, count, axis>>
                 THEN [valid |-> TRUE, grid |-> pre.grid, exc |-> result.exc]
                 ELSE NoRT
        /\ shape' = shape
        /\ IF chk # "none"
           THEN /\ result' = Raise(chk)
                /\ dict_grid' = dict_grid
           ELSE IF SelfIter.exc # "none"
           THEN /\ result' = Raise(SelfIter.exc)
                /\ dict_grid' = gn[1]
           ELSE /\ result' = Ok(None)
                /\ dict_grid' = DictUpdate(gn[1], gn[2])
        /\ flags' = [flags EXCEPT !.clean = @ /\ result'.exc = "none"]
        /\ UNCHANGED logVars
        /\ UNCHANGED <<codeVars, attrVars>>

(***************************************************************************)
(* Layer 3: CodeArray                                                      *)
(*                                                                         *)
(* Cell code is a Python string, modelled as the sequence of its           *)
(* characters.  The host evaluator (eval) is modelled for the expressions  *)
(* the cells below hold: one operand, or operand operator operand, over    *)
(* one-digit integers, names, and + * /.                                   *)
(***************************************************************************)
S_sum == <<"3", "+", "4">>                            \* "3+4"
S_assign == <<"t", " ", "=", " ", "3", "+", "4">>      \* "t = 3+4"
S_use == <<"t", " ", "*", " ", "2">>                  \* "t * 2"
S_div == <<"1", "/", "0">>                            \* "1/0"
S_name == <<"u">>                                     \* "u"
Sources == {S_sum, S_assign, S_use, S_div, S_name}

\* the cells evaluated: rows 0 .. MaxAxis of the first column (row MaxAxis
\* is outside the initial shape)
CodeCoords == {<<x, 0, 0>> : x \in 0 .. MaxAxis}
Digits == <<"0", "1", "2", "3", "4", "5", "6", "7", "8", "9">>

\* the objects a cell evaluation deals in
EvInt(n) == [kind |-> "int", err |-> "none", n |-> n]
EvErr(e) == [kind |-> "error", err |-> e, n |-> 0]
EvNone == [kind |-> "None", err |-> "none", n |-> 0]
Unbound == [kind |-> "unbound", err |-> "none", n |-> 0]

RECURSIVE Split(_, _)
\* str.split(sep): the parts between the occurrences of sep
Split(s, sep) ==
    IF s = <<>> THEN << <<>> >>
    ELSE LET rest == Split(Tail(s), sep)
         IN  IF Head(s) = sep
             THEN << <<>> >> \o rest
             ELSE << <<Head(s)>> \o Head(rest) >> \o Tail(rest)

\* str.split(): the maximal runs of non-blank characters
WsSplit(s) == SelectSeq(Split(s, " "), LAMBDA part : part # <<>>)

RECURSIVE LStrip(_)
LStrip(s) == IF s # <<>> /\ Head(s) = " " THEN LStrip(Tail(s)) ELSE s

RECURSIVE RStrip(_)
RStrip(s) == IF s # <<>> /\ s[Len(s)] = " " THEN RStrip(SubSeq(s, 1, Len(s) - 1)) ELSE s

\* str.strip()
Strip(s) == RStrip(LStrip(s))

RECURSIVE Join(_, _)
\* sep.join(parts)
Join(parts, sep) ==
    IF parts = <<>> THEN <<>>
    ELSE IF Len(parts) = 1 THEN Head(parts)
    ELSE Head(parts) \o <<sep>> \o Join(Tail(parts), sep)

\* str.count(c)
CountChar(s, c) == Cardinality({i \in DOMAIN s : s[i] = c})

\* CodeArray.operators; every operator of two characters that can occur in
\* front of the first "=" contains one of these single characters.
Operators == {"+", "-", "*", "/", "%", "&", "|", "^", "~", "<", ">"}

\* has_assignment, lines 524-529
HasAssignment(src) ==
    LET split_exp == Split(src, "=")
    IN  /\ Len(split_exp) > 1
        /\ Len(WsSplit(split_exp[1])) = 1
        /\ split_exp[2] # <<>>
        /\ ~\E i \in DOMAIN split_exp[1] : split_exp[1][i] \in Operators
        /\ CountChar(split_exp[1], "(") = CountChar(split_exp[1], ")")

\* glob_var, line 534
GlobVar(src) == Strip(Split(src, "=")[1])

\* expression, lines 535 and 538
Expression(src) ==
    IF HasAssignment(src) THEN Join(Tail(Split(src, "=")), "=") ELSE src

\* env: globals().copy() updated with X, Y, Z, R, C, T (lines 510-513)
EnvLookup(name, key, glb) ==
    IF name \in {"X", "R"} THEN EvInt(key[1])
    ELSE IF name \in {"Y", "C"} THEN EvInt(key[2])
    ELSE IF name \in {"Z", "T"} THEN EvInt(key[3])
    ELSE IF name \in DOMAIN glb THEN glb[name]
    ELSE Unbound

\* one operand of an expression: a digit or a name
Operand(tok, key, glb) ==
    IF \E d \in DOMAIN Digits : Digits[d] = tok
    THEN EvInt((CHOOSE d \in DOMAIN Digits : Digits[d] = tok) - 1)
    ELSE LET v == EnvLookup(tok, key, glb)
         IN  IF v.kind = "unbound" THEN EvErr("NameError") ELSE v

\* eval(expression, env, {}), with "except Exception, err: result = err"
EvalExpr(expression, key, glb) ==
    LET toks == SelectSeq(expression, LAMBDA c : c # " ")
    IN  IF Len(toks) = 1 THEN Operand(toks[1], key, glb)
        ELSE IF Len(toks) = 3 /\ toks[2] \in {"+", "*", "/"}
        THEN LET a == Operand(toks[1], key, glb)
                 b == Operand(toks[3], key, glb)
             IN  IF a.err = "NameError" THEN a
                 ELSE IF b.err = "NameError" THEN b
                 ELSE IF a.kind # "int" \/ b.kind # "int" THEN EvErr("TypeError")
                 ELSE IF toks[2] = "+" THEN EvInt(a.n + b.n)
                 ELSE IF toks[2] = "*" THEN EvInt(a.n * b.n)
                 ELSE IF b.n = 0 THEN EvErr("ZeroDivisionError")
                 ELSE EvInt(a.n \div b.n)
        ELSE EvErr("SyntaxError")

\* globals().update({glob_var: result})
GlobalsUpdate(glb, name, v) ==
    [x \in (DOMAIN glb) \cup {name} |-> IF x = name THEN v ELSE glb[x]]

\* CodeArray._eval_cell(key): [raised, res, globs].  self.dict_grid[key] is
\* read outside the try block, so what it raises reaches the caller; the
\* default None of an empty cell has no split method.
EvalCell(key, shp, glb) ==
    LET got == DictGridGetItem(key, shp)
    IN  IF got.exc # "none"
        THEN [raised |-> got.exc, res |-> EvNone, globs |-> glb]
        ELSE IF got.val = None
        THEN [raised |-> "AttributeError", res |-> EvNone, globs |-> glb]
        ELSE LET v == EvalExpr(Expression(got.val), key, glb)
             IN  [raised |-> "none", res |-> v,
                  globs |-> IF HasAssignment(got.val)
                            THEN GlobalsUpdate(glb, GlobVar(got.val)[1], v)
                            ELSE glb]

NoEval == [src |-> <<>>, globs |-> [x \in {} |-> Unbound], res |-> EvNone, raised |-> "none"]

InitCodeVars ==
    /\ globs = [x \in {} |-> Unbound]
    /\ ev = NoEval

\* CodeArray.__getitem__(key): wx.Yield(), then _eval_cell(key).  ev.src
\* remembers the code written by a set of the same key made immediately
\* before.
CodeGetItem(key) ==
    LET r == EvalCell(key, shape, globs)
    IN  /\ result' = IF r.raised = "none" THEN Ok(None) ELSE Raise(r.raised)
        /\ call' = [op |-> "eval", args |-> key, val |-> None]
        /\ ev' = [src |-> IF call.op = "set" /\ call.args = key THEN call.val ELSE <<>>,
                  globs |-> globs, res |-> r.res, raised |-> r.raised]
        /\ globs' = r.globs
        /\ pre' = [grid |-> dict_grid, shape |-> shape]
        /\ rt' = NoRT
        /\ flags' = [flags EXCEPT !.clean = @ /\ result'.exc = "none"]
        /\ UNCHANGED <<shape, dict_grid>>
        /\ UNCHANGED logVars
        /\ UNCHANGED attrVars

(***************************************************************************)
(* CellAttributes                                                          *)
(*                                                                         *)
(* A list of (selection, attr_dict) pairs.  A Selection is used only       *)
(* through "key in selection" and is modelled as the set of the keys it    *)
(* contains; an attr_dict is a function from attribute names to values.    *)
(***************************************************************************)
MaxOverlay == 3  \* longest cell_attributes list

SelKeys == {<<0, 0, 0>>, <<1, 0, 0>>}
Selections == {{<<0, 0, 0>>}, {<<1, 0, 0>>}, SelKeys}
EmptyAttrs == [x \in {} |-> 0]
AttrDicts ==
    {[x \in {"a"} |-> 1], [x \in {"a"} |-> 2], [x \in {"b"} |-> 1],
     [x \in {"a", "b"} |-> 2]}

\* a plausible slip: the selection is not consulted
ContainsAny(selection, key) == TRUE

\* key in selection
Contains(selection, key) == key \in selection

RECURSIVE AttrFold(_, _, _)
\* for selection, attr_dict in self: if key in selection: result_dict.update(attr_dict)
AttrFold(lst, key, result_dict) ==
    IF lst = <<>> THEN result_dict
    ELSE AttrFold(Tail(lst), key,
                  IF Contains(Head(lst)[1], key)
                  THEN DictUpdate(result_dict, Head(lst)[2])
                  ELSE result_dict)

\* CellAttributes.__getitem__(key), key a tuple of integers (the assert passes)
CellAttributesGetItem(lst, key) == AttrFold(lst, key, EmptyAttrs)

InitAttrVars ==
    /\ cell_attributes = <<>>
    /\ acc = [op |-> "init", key |-> <<0, 0, 0>>, res |-> EmptyAttrs]

\* list.append((selection, attr_dict))
AttrAppend(selection, attr_dict) ==
    /\ Len(cell_attributes) < MaxOverlay
    /\ cell_attributes' = Append(cell_attributes, <<selection, attr_dict>>)
    /\ acc' = [op |-> "append", key |-> <<0, 0, 0>>, res |-> EmptyAttrs]
    /\ UNCHANGED <<gridVars, logVars, codeVars>>

\* cell_attributes[key]
AttrGetItem(key) ==
    /\ acc' = [op |-> "resolve", key |-> key,
               res |-> CellAttributesGetItem(cell_attributes, key)]
    /\ UNCHANGED cell_attributes
    /\ UNCHANGED <<gridVars, logVars, codeVars>>

(***************************************************************************)
(* UnRedo                                                                  *)
(*                                                                         *)
(* A log entry is the 4-tuple undo_operation + operation.  The actions an  *)
(* entry names are opaque callables: invoking one is recorded in invoked,  *)
(* and while it runs (pc = "undo_call" / "redo_call") it may call append,  *)
(* as the logged grid operations of the application do.  undo() and redo() *)
(* are therefore split at the invocation: Begin, Step (pop, push, invoke), *)
(* ActionReturn, End.                                                      *)
(***************************************************************************)
MAX_UNREDO == 2

MARK == <<"MARK">>

UndoOperation(id) == <<"undo_fn", <<id>>>>
Operation(id) == <<"redo_fn", <<id>>>>

Last(s) == s[Len(s)]
Front(s) == SubSeq(s, 1, Len(s) - 1)

\* lst != [] and lst[-1] == "MARK"
TopIsMark(lst) == lst # <<>> /\ Last(lst) = MARK

RECURSIVE StripMarks(_)
\* while lst != [] and lst[-1] == "MARK": lst.pop()
StripMarks(lst) ==
    IF TopIsMark(lst) THEN StripMarks(Front(lst)) ELSE lst

\* a plausible slip: only the undo list is measured
OverflowUndoOnly(u, r) == Len(u) > MAX_UNREDO

\* len(self.undolist) > MAX_UNREDO or len(self.redolist) > MAX_UNREDO
Overflow(u, r) == Len(u) > MAX_UNREDO \/ Len(r) > MAX_UNREDO

\* reset(): self.__init__()
ResetState == [undolist |-> <<>>, redolist |-> <<>>, active |-> FALSE]

\* append(undo_operation, operation) on the state s = [undolist, redolist,
\* active]; the argument type checks pass for the 2-tuples used here.
AppendEffect(s, undo_operation, operation) ==
    LET s1 == IF Overflow(s.undolist, s.redolist) THEN ResetState ELSE s
    IN  IF ~s1.active
        THEN [s1 EXCEPT !.undolist = Append(@, undo_operation \o operation)]
        ELSE s1

\* mark()
MarkEffect(u) ==
    IF u # <<>> /\ Last(u) # MARK THEN Append(u, MARK) ELSE u

\* a plausible slip: undo() never separates its entries from the older ones
UndoPushMarkNever(r) == r

\* undo(), lines 184-185
UndoPushMark(r) ==
    IF r # <<>> /\ Last(r) # MARK THEN Append(r, MARK) ELSE r

\* redo(), lines 204-205
RedoPushMark(u) ==
    IF u # <<>> THEN Append(u, MARK) ELSE u

LogState == [undolist |-> undolist, redolist |-> redolist, active |-> active]

NoAppend == [id |-> 0, u |-> <<>>, r |-> <<>>, a |-> FALSE]

NoSnap == [stage |-> 0, u |-> <<>>, r |-> <<>>]

\* snap.stage: 1 in undo(), 2 after it, 3 in the redo() called next, 4 after it
SnapAdvance(from) ==
    IF snap.stage = from THEN [snap EXCEPT !.stage = from + 1] ELSE NoSnap

InitLogVars ==
    /\ undolist = <<>>
    /\ redolist = <<>>
    /\ active = FALSE
    /\ pc = "idle"
    /\ nextId = 1
    /\ invoked = <<>>
    /\ ucall = "init"
    /\ acall = NoAppend
    /\ steps = [cur |-> 0, of |-> <<>>]
    /\ scen = [stage |-> 0, id |-> 0]
    /\ snap = NoSnap

\* A mark() call closes the step of the entries appended since the last one.
StepsAfterMark ==
    IF \E i \in DOMAIN steps.of : steps.of[i] = steps.cur
    THEN [steps EXCEPT !.cur = @ + 1]
    ELSE steps

\* The state change of one append call, top-level or from a running action.
DoAppend ==
    LET s2 == AppendEffect(LogState, UndoOperation(nextId), Operation(nextId))
    IN  /\ nextId <= MaxEntries
        /\ undolist' = s2.undolist
        /\ redolist' = s2.redolist
        /\ active' = s2.active
        /\ acall' = [id |-> nextId, u |-> undolist, r |-> redolist, a |-> active]
        /\ steps' = [steps EXCEPT !.of = Append(@, steps.cur)]
        /\ nextId' = nextId + 1

\* append called by the application
AppendCall ==
    /\ pc = "idle"
    /\ DoAppend
    /\ ucall' = "append"
    /\ scen' = [stage |-> 1, id |-> nextId]
    /\ snap' = NoSnap
    /\ UNCHANGED <<pc, invoked>>
    /\ UNCHANGED gridVars
    /\ UNCHANGED <<codeVars, attrVars>>

\* append called by the action that undo()/redo() is invoking
CallbackAppend ==
    /\ pc \in {"undo_call", "redo_call"}
    /\ DoAppend
    /\ ucall' = "cb_append"
    /\ snap' = NoSnap
    /\ UNCHANGED <<pc, invoked, scen>>
    /\ UNCHANGED gridVars
    /\ UNCHANGED <<codeVars, attrVars>>

Mark ==
    /\ pc = "idle"
    /\ undolist' = MarkEffect(undolist)
    /\ ucall' = "mark"
    /\ steps' = StepsAfterMark
    /\ scen' = IF scen.stage = 1 THEN [scen EXCEPT !.stage = 2]
               ELSE [stage |-> 0, id |-> 0]
    /\ snap' = NoSnap
    /\ UNCHANGED <<redolist, active, pc, nextId, invoked, acall>>
    /\ UNCHANGED gridVars
    /\ UNCHANGED <<codeVars, attrVars>>

\* undo(), lines 179-185
UndoBegin ==
    /\ pc = "idle"
    /\ active' = TRUE
    /\ undolist' = StripMarks(undolist)
    /\ redolist' = UndoPushMark(redolist)
    /\ pc' = "undo_loop"
    /\ invoked' = <<>>
    /\ ucall' = "undo"
    /\ scen' = IF scen.stage = 2 THEN [scen EXCEPT !.stage = 3]
               ELSE [stage |-> 0, id |-> 0]
    /\ snap' = [stage |-> 1, u |-> undolist, r |-> redolist]
    /\ UNCHANGED <<nextId, acall, steps>>
    /\ UNCHANGED gridVars
    /\ UNCHANGED <<codeVars, attrVars>>

\* undo(), lines 187-192: one iteration that reaches the invocation
UndoStep ==
    /\ pc = "undo_loop"
    /\ undolist # <<>>
    /\ Last(undolist) # MARK
    /\ LET step == Last(undolist)
       IN  /\ undolist' = Front(undolist)
           /\ redolist' = Append(redolist, step)
           /\ invoked' = Append(invoked, <<step[1], step[2]>>)
    /\ pc' = "undo_call"
    /\ ucall' = "undo_step"
    /\ UNCHANGED <<active, nextId, acall, steps, scen, snap>>
    /\ UNCHANGED gridVars
    /\ UNCHANGED <<codeVars, attrVars>>

\* undo(): the loop ends (empty list, or a MARK popped), line 194
UndoEnd ==
    /\ pc = "undo_loop"
    /\ undolist = <<>> \/ TopIsMark(undolist)
    /\ undolist' = IF undolist = <<>> THEN undolist ELSE Front(undolist)
    /\ active' = FALSE
    /\ pc' = "idle"
    /\ ucall' = "undo_end"
    /\ snap' = SnapAdvance(1)
    /\ UNCHANGED <<redolist, nextId, invoked, acall, steps, scen>>
    /\ UNCHANGED gridVars
    /\ UNCHANGED <<codeVars, attrVars>>

\* redo(), lines 199-205
RedoBegin ==
    /\ pc = "idle"
    /\ Len(RedoPushMark(undolist)) <= MaxLen
    /\ active' = TRUE
    /\ redolist' = StripMarks(redolist)
    /\ undolist' = RedoPushMark(undolist)
    /\ pc' = "redo_loop"
    /\ invoked' = <<>>
    /\ ucall' = "redo"
    /\ scen' = IF scen.stage = 3 THEN [scen EXCEPT !.stage = 4]
               ELSE [stage |-> 0, id |-> 0]
    /\ snap' = SnapAdvance(2)
    /\ UNCHANGED <<nextId, acall, steps>>
    /\ UNCHANGED gridVars
    /\ UNCHANGED <<codeVars, attrVars>>

\* redo(), lines 207-212
RedoStep ==
    /\ pc = "redo_loop"
    /\ redolist # <<>>
    /\ Last(redolist) # MARK
    /\ LET step == Last(redolist)
       IN  /\ redolist' = Front(redolist)
           /\ undolist' = Append(undolist, step)
           /\ invoked' = Append(invoked, <<step[3], step[4]>>)
    /\ pc' = "redo_call"
    /\ ucall' = "redo_step"
    /\ UNCHANGED <<active, nextId, acall, steps, scen, snap>>
    /\ UNCHANGED gridVars
    /\ UNCHANGED <<codeVars, attrVars>>

\* redo(), line 214
RedoEnd ==
    /\ pc = "redo_loop"
    /\ redolist = <<>> \/ TopIsMark(redolist)
    /\ redolist' = IF redolist = <<>> THEN redolist ELSE Front(redolist)
    /\ active' = FALSE
    /\ pc' = "idle"
    /\ ucall' = "redo_end"
    /\ snap' = SnapAdvance(3)
    /\ UNCHANGED <<undolist, nextId, invoked, acall, steps, scen>>
    /\ UNCHANGED gridVars
    /\ UNCHANGED <<codeVars, attrVars>>

\* the invoked action returns to the loop of undo() / redo()
ActionReturn ==
    /\ pc \in {"undo_call", "redo_call"}
    /\ pc' = IF pc = "undo_call" THEN "undo_loop" ELSE "redo_loop"
    /\ ucall' = "return"
    /\ UNCHANGED <<undolist, redolist, active, nextId, invoked, acall, steps, scen, snap>>
    /\ UNCHANGED gridVars
    /\ UNCHANGED <<codeVars, attrVars>>

\* the invoked action raises: there is no try/finally in undo() or redo(),
\* so the exception leaves the call at once and line 194 / 214 is not run
ActionRaise ==
    /\ pc \in {"undo_call", "redo_call"}
    /\ pc' = "idle"
    /\ ucall' = "raise"
    /\ snap' = NoSnap
    /\ UNCHANGED <<undolist, redolist, active, nextId, invoked, acall, steps, scen>>
    /\ UNCHANGED gridVars
    /\ UNCHANGED <<codeVars, attrVars>>

\* reset() called by the owner
Reset ==
    /\ pc = "idle"
    /\ undolist' = ResetState.undolist
    /\ redolist' = ResetState.redolist
    /\ active' = ResetState.active
    /\ ucall' = "reset"
    /\ scen' = [stage |-> 0, id |-> 0]
    /\ snap' = NoSnap
    /\ UNCHANGED <<pc, nextId, invoked, acall, steps>>
    /\ UNCHANGED gridVars
    /\ UNCHANGED <<codeVars, attrVars>>

(***************************************************************************)
(* Specifications                                                          *)
(***************************************************************************)
InitGrid == InitGridVars /\ InitLogVars /\ InitCodeVars /\ InitAttrVars

NextGrid ==
    \/ \E key \in Coords, value \in Values : SetItem(key, value)
    \/ \E key \in Coords : GetItem(key)
    \/ \E new \in Shapes : SetShape(new)
    \/ \E p \in Points, n \in Counts, ax \in Axes : Insert(p, n, ax)
    \/ \E p \in Points, n \in Counts, ax \in Axes : Delete(p, n, ax)

SpecGrid == InitGrid /\ [][NextGrid]_vars

InitUnRedo == InitGridVars /\ InitLogVars /\ InitCodeVars /\ InitAttrVars

NextUnRedo ==
    \/ AppendCall
    \/ CallbackAppend
    \/ Mark
    \/ UndoBegin
    \/ UndoStep
    \/ UndoEnd
    \/ RedoBegin
    \/ RedoStep
    \/ RedoEnd
    \/ ActionReturn
    \/ Reset

SpecUnRedo == InitUnRedo /\ [][NextUnRedo]_vars

\* The log driven by actions that never call append themselves.
NextUnRedoPlain ==
    \/ AppendCall
    \/ Mark
    \/ UndoBegin
    \/ UndoStep
    \/ UndoEnd
    \/ RedoBegin
    \/ RedoStep
    \/ RedoEnd
    \/ ActionReturn
    \/ Reset

SpecUnRedoPlain == InitUnRedo /\ [][NextUnRedoPlain]_vars

\* The log driven by actions that may raise.
NextUnRedoRaise ==
    \/ AppendCall
    \/ Mark
    \/ UndoBegin
    \/ UndoStep
    \/ UndoEnd
    \/ RedoBegin
    \/ RedoStep
    \/ RedoEnd
    \/ ActionReturn
    \/ ActionRaise
    \/ Reset

SpecUnRedoRaise == InitUnRedo /\ [][NextUnRedoRaise]_vars

\* A CodeArray: cells are written with __setitem__ and read by evaluation.
InitCode == InitGridVars /\ InitLogVars /\ InitCodeVars /\ InitAttrVars

NextCode ==
    \/ \E key \in CodeCoords, value \in Sources : SetItem(key, value)
    \/ \E key \in CodeCoords : CodeGetItem(key)

SpecCode == InitCode /\ [][NextCode]_vars

\* Structural edits of a grid holding a few cells of the first column.
InitEdit == InitGridVars /\ InitLogVars /\ InitCodeVars /\ InitAttrVars

NextEdit ==
    \/ \E key \in CodeCoords : SetItem(key, "a")
    \/ \E new \in Shapes : SetShape(new)
    \/ \E p \in Points, n \in Counts, ax \in Axes : Insert(p, n, ax)
    \/ \E p \in Points, n \in Counts, ax \in Axes : Delete(p, n, ax)

SpecEdit == InitEdit /\ [][NextEdit]_vars

\* The attribute list of a grid.
InitAttr == InitGridVars /\ InitLogVars /\ InitCodeVars /\ InitAttrVars

NextAttr ==
    \/ \E selection \in Selections, attr_dict \in AttrDicts : AttrAppend(selection, attr_dict)
    \/ \E key \in SelKeys : AttrGetItem(key)

SpecAttr == InitAttr /\ [][NextAttr]_vars

(***************************************************************************)
(* Claims about the grid (SpecGrid)                                        *)
(***************************************************************************)
\* 0 <= k[i] < shape[i] on every axis i of the shape
Within(k, shp) ==
    \A i \in 1 .. Len(shp) : i <= Len(k) /\ 0 <= k[i] /\ k[i] < shp[i]

\* an insertion/deletion point valid for the axis
ValidPoint(point, axis, shp) ==
    /\ 0 <= axis
    /\ axis < Len(shp)
    /\ -shp[axis + 1] < point
    /\ point <= shp[axis + 1]

HasAxis(k, axis) == axis + 1 <= Len(k)

ShiftKey(k, axis, d) == [k EXCEPT ![axis + 1] = @ + d]

\* the mapping the insert of the specification produces
InsertExpected(g, point, count, axis) ==
    LET movers == {k \in DOMAIN g : HasAxis(k, axis) /\ k[axis + 1] >= point}
        stay == (DOMAIN g) \ movers
        moved == {ShiftKey(k, axis, count) : k \in movers}
    IN  [x \in stay \cup moved |->
            IF x \in moved
            THEN g[CHOOSE k \in movers : ShiftKey(k, axis, count) = x]
            ELSE g[x]]

\* the mapping the delete of the specification produces
DeleteExpected(g, point, count, axis) ==
    LET movers == {k \in DOMAIN g : HasAxis(k, axis) /\ k[axis + 1] >= point + count}
        gone == {k \in DOMAIN g :
                    HasAxis(k, axis) /\ point <= k[axis + 1] /\ k[axis + 1] < point + count}
        stay == ((DOMAIN g) \ movers) \ gone
        moved == {ShiftKey(k, axis, -count) : k \in movers}
    IN  [x \in stay \cup moved |->
            IF x \in moved
            THEN g[CHOOSE k \in movers : ShiftKey(k, axis, -count) = x]
            ELSE g[x]]

\* C1: after any sequence of set, resize, insert and delete calls that all
\* returned without error, every stored coordinate lies within the shape on
\* every axis.  (Violated: set stores 1-tuples and checks no bound.)
C1_StoredWithinShape ==
    flags.clean => \A k \in DOMAIN dict_grid : Within(k, shape)

\* C2: get(c) of an in-bounds coordinate returns the value written by the
\* set(c, v) made immediately before, and returns None, without raising,
\* when nothing was ever set.  (Violated: every in-bounds get raises.)
C2_GetAfterSet ==
    (call.op = "get" /\ Within(call.args, shape)) =>
        /\ call.val # None => result = Ok(call.val)
        /\ ~flags.everSet => result = Ok(None)

\* C3: insert(p, n, axis) followed by delete(p, n, axis), p valid and
\* n >= 0: both calls are carried out and the mapping is the one before
\* the insert.  (Violated: insert raises TypeError.)
C3_InsertDeleteRoundTrip ==
    (/\ rt.valid
     /\ ValidPoint(call.args[1], call.args[3], shape)
     /\ call.args[2] >= 0) =>
        /\ rt.exc = "none"
        /\ result.exc = "none"
        /\ dict_grid = rt.grid

\* C8: insert(p, n, axis) moves every stored coordinate with axis index >= p
\* by +n along the axis and leaves the others unchanged.  (Violated: the
\* call raises before it moves anything.)
C8_InsertShifts ==
    (/\ call.op = "insert"
     /\ ValidPoint(call.args[1], call.args[3], pre.shape)
     /\ call.args[2] >= 0) =>
        dict_grid = InsertExpected(pre.grid, call.args[1], call.args[2], call.args[3])

\* C9: delete(p, n, axis) removes the stored coordinates with axis index in
\* [p, p+n), moves those with index >= p+n by -n and leaves the others
\* unchanged.  (Violated: the call raises before it removes anything.)
C9_DeleteShifts ==
    (/\ call.op = "delete"
     /\ ValidPoint(call.args[1], call.args[3], pre.shape)
     /\ call.args[2] >= 0) =>
        dict_grid = DeleteExpected(pre.grid, call.args[1], call.args[2], call.args[3])

\* C10: setting a shape that is smaller on some axis removes exactly the
\* stored coordinates with an index >= the new bound on some axis and then
\* commits the new shape; a shape smaller on no axis removes nothing and is
\* committed.  (Violated: the eviction loop raises after its first pop.)
C10_ResizeEvicts ==
    call.op = "resize" =>
        LET new == call.args
            smaller == \E i \in 1 .. Len(new) : new[i] < pre.shape[i]
            keep == {k \in DOMAIN pre.grid :
                        ~\E i \in 1 .. Len(new) : i <= Len(k) /\ k[i] >= new[i]}
        IN  /\ shape = new
            /\ IF smaller
               THEN dict_grid = [k \in keep |-> pre.grid[k]]
               ELSE dict_grid = pre.grid

\* C11: for every coordinate that fails 0 <= c[i] < shape[i] on some axis,
\* get(c) raises IndexError, and set(c, v) raises IndexError and stores
\* nothing.  (Violated: set checks no bound, and get lets the negative
\* indices down to -shape[i] through.)
C11_OutOfBoundsRaises ==
    /\ (call.op = "get" /\ ~Within(call.args, shape)) => result.exc = "IndexError"
    /\ (call.op = "set" /\ ~Within(call.args, pre.shape)) =>
            /\ result.exc = "IndexError"
            /\ dict_grid = pre.grid

\* C12: insert and delete reject every argument outside 0 <= axis <=
\* dimensionality, -shape[axis] < point <= shape[axis] (and count >= 0 for
\* delete): ValueError for a bad axis or a negative delete count, IndexError
\* for a bad point (an axis equal to the dimensionality has no shape entry,
\* hence no good point), with the mapping and the shape unchanged; and
\* they reject no other argument with either error.
C12_EditValidation ==
    call.op \in {"insert", "delete"} =>
        LET point == call.args[1]
            count == call.args[2]
            axis == call.args[3]
            shp == pre.shape
            badAxis == ~(0 <= axis /\ axis <= Len(shp))
            badCount == call.op = "delete" /\ count < 0
            badPoint == \/ axis = Len(shp)
                        \/ point > shp[axis + 1]
                        \/ point <= -shp[axis + 1]
        IN  IF badAxis \/ badCount
            THEN result.exc = "ValueError" /\ dict_grid = pre.grid /\ shape = pre.shape
            ELSE IF badPoint
            THEN result.exc = "IndexError" /\ dict_grid = pre.grid /\ shape = pre.shape
            ELSE result.exc \notin {"ValueError", "IndexError"}

\* an insert at the point -shape[axis], one below the lowest good point, on
\* a grid that holds cells: rejected, nothing moved
C12_Witness ==
    /\ call.op = "insert"
    /\ call.args[3] = 0
    /\ call.args[1] = -pre.shape[1]
    /\ result.exc = "IndexError"
    /\ dict_grid # EmptyGrid
    /\ dict_grid = pre.grid

(***************************************************************************)
(* Claims about cell evaluation (SpecCode)                                 *)
(***************************************************************************)
\* the evaluation just made was of an in-bounds cell written immediately before
EvaluatedCode ==
    call.op = "eval" /\ ev.src # <<>> /\ Within(call.args, shape)

\* C13: evaluating a cell that holds code returns the evaluator's value or,
\* when the evaluator fails, the failure object; the call itself does not
\* raise.  (Violated: the cell's code is fetched outside the try block and
\* the fetch raises, see C2.)
C13_FailureCaptured ==
    EvaluatedCode =>
        /\ ev.raised = "none"
        /\ ev.res.kind \in {"int", "error"}

\* C14: evaluating "name = expr" returns the value of expr and binds name to
\* it in the globals; every evaluation computes its expression with the
\* bindings made so far, and one without an assignment binds nothing.
\* (Violated: no evaluation gets as far as the evaluator, see C2.)
C14_GlobalBinding ==
    EvaluatedCode =>
        /\ ev.res = EvalExpr(Expression(ev.src), call.args, ev.globs)
        /\ IF HasAssignment(ev.src)
           THEN /\ GlobVar(ev.src)[1] \in DOMAIN globs
                /\ globs[GlobVar(ev.src)[1]] = ev.res
                /\ \A x \in DOMAIN ev.globs :
                      x # GlobVar(ev.src)[1] => x \in DOMAIN globs /\ globs[x] = ev.globs[x]
           ELSE globs = ev.globs

\* C15: evaluating an in-bounds cell of a grid in which nothing was ever
\* written returns the empty value (None), raises nothing and binds
\* nothing.  (Violated: the fetch raises, and None has no split method.)
C15_EmptyCell ==
    (call.op = "eval" /\ Within(call.args, shape) /\ ~flags.everSet) =>
        /\ ev.raised = "none"
        /\ ev.res = EvNone
        /\ globs = ev.globs

(***************************************************************************)
(* Claims about the attribute list (SpecAttr)                              *)
(***************************************************************************)
\* the entries of the list whose selection contains the key looked up
Matching == {i \in DOMAIN cell_attributes : acc.key \in cell_attributes[i][1]}

\* the entries among them that set attribute a
Setting(a) == {i \in Matching : a \in DOMAIN cell_attributes[i][2]}

\* C16: cell_attributes[c] holds exactly the attribute names set by the
\* entries whose selection contains c, each with the value of the latest
\* such entry that sets it; entries whose selection does not contain c
\* contribute nothing, and the result is the empty dict when none matches.
C16_ResolveFold ==
    acc.op = "resolve" =>
        /\ DOMAIN acc.res = UNION {DOMAIN cell_attributes[i][2] : i \in Matching}
        /\ \A a \in DOMAIN acc.res :
              \E i \in Setting(a) :
                  /\ \A j \in Setting(a) : j <= i
                  /\ acc.res[a] = cell_attributes[i][2][a]

\* a lookup over three entries: two that match and set "a" to different
\* values, and one that does not match and sets "b"
C16_Witness ==
    /\ acc.op = "resolve"
    /\ \E i, j \in Matching :
          /\ i < j
          /\ "a" \in DOMAIN cell_attributes[i][2]
          /\ "a" \in DOMAIN cell_attributes[j][2]
          /\ cell_attributes[i][2]["a"] # cell_attributes[j][2]["a"]
          /\ acc.res["a"] = cell_attributes[j][2]["a"]
    /\ \E k \in DOMAIN cell_attributes :
          /\ k \notin Matching
          /\ "b" \in DOMAIN cell_attributes[k][2]
    /\ "b" \notin DOMAIN acc.res

(***************************************************************************)
(* Claims about the undo/redo log (SpecUnRedo)                             *)
(***************************************************************************)
Count(seq, x) == Cardinality({i \in DOMAIN seq : seq[i] = x})

OnList(lst, e) == \E i \in DOMAIN lst : lst[i] = e

EntryOf(id) == UndoOperation(id) \o Operation(id)

\* the ids of the entries whose actions the last undo()/redo() invoked
InvokedIds == [i \in DOMAIN invoked |-> invoked[i][2][1]]

\* C4: after append(u, r); mark(); undo() the entry's undo-action has been
\* invoked exactly once with its undo-args and the entry is on the redo
\* stack and off the undo stack; after a following redo() its redo-action
\* has been invoked exactly once with its redo-args and the entry is on the
\* undo stack and off the redo stack.  (Violated when the invoked action
\* calls append and a stack is over MAX_UNREDO: see C6.)
C4_UndoThenRedo ==
    /\ (scen.stage = 3 /\ ucall = "undo_end") =>
            /\ Count(invoked, UndoOperation(scen.id)) = 1
            /\ OnList(redolist, EntryOf(scen.id))
            /\ ~OnList(undolist, EntryOf(scen.id))
    /\ (scen.stage = 4 /\ ucall = "redo_end") =>
            /\ Count(invoked, Operation(scen.id)) = 1
            /\ OnList(undolist, EntryOf(scen.id))
            /\ ~OnList(redolist, EntryOf(scen.id))

\* C5: the entries one undo() replays belong to a single mark()-delimited
\* step and are replayed in the reverse of their append order; the entries
\* one redo() replays belong to a single step and are replayed in append
\* order.  (Violated: undo() pops the MARK that closed the step below.)
C5_ReplayWithinStep ==
    ucall \in {"undo_end", "redo_end"} =>
        /\ \A i, j \in DOMAIN invoked :
              steps.of[InvokedIds[i]] = steps.of[InvokedIds[j]]
        /\ \A i, j \in DOMAIN invoked :
              i < j => IF ucall = "undo_end"
                       THEN InvokedIds[i] > InvokedIds[j]
                       ELSE InvokedIds[i] < InvokedIds[j]

\* C6: an append issued while active is true changes neither stack nor the
\* flag, whatever the sizes of the stacks.  (Violated when a stack is over
\* MAX_UNREDO: reset() clears both, clears active, and the entry is pushed.)
C6_AppendWhileActiveIgnored ==
    (ucall \in {"append", "cb_append"} /\ acall.a) =>
        /\ undolist = acall.u
        /\ redolist = acall.r
        /\ active = acall.a

\* C7: an append made while active is false, with the undo stack or the
\* redo stack holding more than MAX_UNREDO items, leaves the undo stack
\* holding exactly the new entry and the redo stack empty; with neither
\* stack over MAX_UNREDO it pushes the entry and drops nothing.
C7_AppendOverflowClears ==
    (ucall \in {"append", "cb_append"} /\ ~acall.a) =>
        IF Len(acall.u) > MAX_UNREDO \/ Len(acall.r) > MAX_UNREDO
        THEN undolist = <<EntryOf(acall.id)>> /\ redolist = <<>>
        ELSE undolist = Append(acall.u, EntryOf(acall.id)) /\ redolist = acall.r

\* an application append that found the redo stack, and only it, over
\* MAX_UNREDO, and cleared history that was not empty
C7_Witness ==
    /\ ucall = "append"
    /\ ~acall.a
    /\ Len(acall.r) > MAX_UNREDO
    /\ Len(acall.u) <= MAX_UNREDO
    /\ acall.u # <<>>
    /\ undolist = <<EntryOf(acall.id)>>
    /\ redolist = <<>>

AdjacentMarks(lst) ==
    \E i \in 1 .. Len(lst) - 1 : lst[i] = MARK /\ lst[i + 1] = MARK

\* C17: between calls, neither the undo stack nor the redo stack holds two
\* adjacent MARKs.  (Violated: redo() pushes its MARK on the undo stack
\* without looking at the top.)
C17_MarksCoalesced ==
    pc = "idle" => ~AdjacentMarks(undolist) /\ ~AdjacentMarks(redolist)

\* a redo() call is running or has just ended
InRedo ==
    \/ ucall \in {"redo", "redo_step", "redo_end"}
    \/ ucall = "return" /\ pc = "redo_loop"

\* C18: mark() leaves the redo stack unchanged, and a redo() invokes the
\* redo-action of no entry that was on the redo stack when the last entry
\* was appended.  (Violated: append leaves the redo stack as it is.)
C18_RedoInvalidated ==
    /\ [][ucall' = "mark" => redolist' = redolist]_vars
    /\ [](InRedo => \A k \in DOMAIN invoked :
                        ~OnList(acall.r, EntryOf(InvokedIds[k])))

HasEntry(lst) == \E i \in DOMAIN lst : lst[i] # MARK

C20_ActiveOnlyWhileReplaying ==
    /\ pc = "idle" => ~active
    /\ ucall = "append" => undolist # <<>> /\ Last(undolist) = EntryOf(acall.id)

====
